---- MODULE Spec2Model ----
(***************************************************************************)
(* Similarity recommenders of ml_recsys_tools                              *)
(* (lightfm_tools/similarity_recommenders.py): the co-occurrence builder,  *)
(* the similarity store with its no-negatives shift, the top-K ranking and *)
(* the fit / continue_fit / query life cycle of ItemCoocRecommender,       *)
(* UserCoocRecommender and SimilarityDFRecommender.                        *)
(*                                                                         *)
(* Numbers are exact rationals <<num, den>> (den > 0, lowest terms).  A    *)
(* scipy sparse matrix is a record [rows, cols, d] whose d maps every      *)
(* position to an entry: a rational when the position is stored (a stored  *)
(* zero is <<0, 1>>), or Absent when it is structurally empty.  Floating   *)
(* point rounding (the float32 downcast of line 52) is not represented:    *)
(* the arithmetic of the model is exact.                                   *)
(***************************************************************************)
EXTENDS Integers, Sequences, FiniteSets, TLC

\* ---------------------------------------------------------------- bounds
NumUsers == 2
NumItems == 3
MaxObs == 3
MaxPairs == 1
MaxContinue == 2
MaxK == 4
MaxRankPairs == 2

Users == 1..NumUsers
Items == 1..NumItems

\* ------------------------------------------------------- exact rationals
\* Operators bind their arguments once, as x \in {x0}, so that an argument is
\* evaluated a single time however often its body uses it.
The(S) == CHOOSE x \in S : TRUE

Abs(x) == IF x < 0 THEN -x ELSE x

RECURSIVE GCD(_, _)
GCD(a0, b0) == The({IF b = 0 THEN a ELSE GCD(b, a % b) : a \in {a0}, b \in {b0}})

Rat(n0, d0) ==
    The({The({<<(IF d < 0 THEN -1 ELSE 1) * (n \div g), (IF d < 0 THEN -1 ELSE 1) * (d \div g)>> :
                g \in {GCD(Abs(n), Abs(d))}}) : n \in {n0}, d \in {d0}})

Zero == <<0, 1>>
One == <<1, 1>>
Absent == <<0, 0>>

RAdd(a0, b0) ==
    The({The({Rat(a[1] * (b[2] \div g) + b[1] * (a[2] \div g), (a[2] \div g) * b[2]) :
                g \in {GCD(a[2], b[2])}}) : a \in {a0}, b \in {b0}})
RNeg(a0) == The({<<-a[1], a[2]>> : a \in {a0}})
RSub(a, b) == RAdd(a, RNeg(b))
RMul(a0, b0) ==
    The({The({<<x[1] * y[1], x[2] * y[2]>> : x \in {Rat(a[1], b[2])}, y \in {Rat(b[1], a[2])}}) :
            a \in {a0}, b \in {b0}})
RInv(a0) == The({IF a[1] < 0 THEN <<-a[2], -a[1]>> ELSE <<a[2], a[1]>> : a \in {a0}})
RDiv(a, b) == RMul(a, RInv(b))
RLt(a, b) == RSub(a, b)[1] < 0
RLe(a, b) == RSub(a, b)[1] <= 0
RAbs(a0) == The({<<Abs(a[1]), a[2]>> : a \in {a0}})
RMax(a0, b0) == The({IF RLt(a, b) THEN b ELSE a : a \in {a0}, b \in {b0}})

RECURSIVE RPow(_, _)
RPow(a, n) == IF n = 0 THEN One ELSE RMul(a, RPow(a, n - 1))

RECURSIVE RSum(_, _)
RSum(f, S) ==
    IF S = {} THEN Zero
    ELSE The({RAdd(f[x], RSum(f, S \ {x})) : x \in {CHOOSE y \in S : TRUE}})

\* ------------------------------------------------------- sparse matrices
Stored(e) == e[2] # 0
Val(e0) == The({IF Stored(e) THEN e ELSE Zero : e \in {e0}})

Pos(m) == (1..m.rows) \X (1..m.cols)
StoredPos(m0) == The({{p \in Pos(m) : Stored(m.d[p])} : m \in {m0}})
\* (f @@ <<>> is f, held as an explicit table of its values)
Mat(r, c, f) == [rows |-> r, cols |-> c, d |-> f @@ <<>>]
NoneMat == [rows |-> 0, cols |-> 0, d |-> <<>>]

\* len(m.data) and np.sum(m.data), np.min(m.data)
DataLen(m) == Cardinality(StoredPos(m))
DataSum(m0) == The({RSum(m.d, StoredPos(m)) : m \in {m0}})
DataMin(m0) ==
    The({The({m.d[CHOOSE p \in S : \A q \in S : RLe(m.d[p], m.d[q])] : S \in {StoredPos(m)}}) :
            m \in {m0}})

\* m.T
Transpose(m0) ==
    The({Mat(m.cols, m.rows, [p \in (1..m.cols) \X (1..m.rows) |-> m.d[<<p[2], p[1]>>]]) :
            m \in {m0}})

\* the inner product of row i of a and column j of b over the terms with both
\* factors stored; Absent when there is no such term
InnerProduct(a, b, i, j) ==
    The({IF K = {} THEN Absent
         ELSE RSum([k \in K |-> RMul(a.d[<<i, k>>], b.d[<<k, j>>])], K) :
            K \in {{k \in 1..a.cols : Stored(a.d[<<i, k>>]) /\ Stored(b.d[<<k, j>>])}}})

\* a * b for two sparse matrices: a position is stored when some term of its
\* inner product has both factors stored
MatMul(a0, b0) ==
    The({Mat(a.rows, b.cols, [p \in (1..a.rows) \X (1..b.cols) |-> InnerProduct(a, b, p[1], p[2])]) :
            a \in {a0}, b \in {b0}})

\* one position of a + b: csr_binop_csr keeps only nonzero results
AddEntries(x0, y0) ==
    The({The({IF (Stored(x) \/ Stored(y)) /\ s # Zero THEN s ELSE Absent :
                s \in {RAdd(Val(x), Val(y))}}) : x \in {x0}, y \in {y0}})

\* a + b for two sparse matrices
SpAdd(a0, b0) ==
    The({Mat(a.rows, a.cols, [p \in Pos(a) |-> AddEntries(a.d[p], b.d[p])]) :
            a \in {a0}, b \in {b0}})

\* r * m, and m.data *= r: the stored pattern is kept
Scale(r0, m0) ==
    The({Mat(m.rows, m.cols, [p \in Pos(m) |-> IF Stored(m.d[p]) THEN RMul(r, m.d[p]) ELSE Absent]) :
            r \in {r0}, m \in {m0}})

\* m.data += r
ShiftData(m0, r0) ==
    The({Mat(m.rows, m.cols, [p \in Pos(m) |-> IF Stored(m.d[p]) THEN RAdd(m.d[p], r) ELSE Absent]) :
            r \in {r0}, m \in {m0}})

\* m.eliminate_zeros()
EliminateZeros(m0) ==
    The({Mat(m.rows, m.cols, [p \in Pos(m) |-> IF m.d[p] = Zero THEN Absent ELSE m.d[p]]) :
            m \in {m0}})

\* a build that keeps the self similarities
SetDiagZero_Kept(m0) == m0

\* m.setdiag(0): every diagonal position becomes a stored zero
SetDiagZero(m0) ==
    The({Mat(m.rows, m.cols, [p \in Pos(m) |-> IF p[1] = p[2] THEN Zero ELSE m.d[p]]) :
            m \in {m0}})

\* ------------------------------------------ interaction weights and params
\* interaction weights of the observations (non-negative ratings or counts)
Weights == {<<1, 20>>, <<2, 1>>}

TransFuncs == {"ones", "log", "none"}
UnknownTransFunc == "sqrt"

\* np.log10(v + 1) on the weights above, to two decimals
Log10P1(v) ==
    CASE v = <<1, 20>> -> <<1, 50>>
      [] v = <<2, 1>> -> <<12, 25>>
      [] v = One -> <<3, 10>>
      [] OTHER -> Zero

\* -------------------------------------------------- co-occurrence builder
\* the k-th smallest stored value (k counted from 0)
KthSmallest(m, k) ==
    The({m.d[CHOOSE p \in S :
                /\ Cardinality({q \in S : RLt(m.d[q], m.d[p])}) <= k
                /\ Cardinality({q \in S : RLe(m.d[q], m.d[p])}) > k] : S \in {StoredPos(m)}})

\* np.percentile(m.data, q), linear interpolation between the two nearest ranks
Percentile(m, q) ==
    The({The({The({RAdd(lo, RMul(Rat(pos % 100, 100), RSub(hi, lo))) :
                lo \in {KthSmallest(m, pos \div 100)},
                hi \in {KthSmallest(m, IF (pos \div 100) + 1 < n THEN (pos \div 100) + 1
                                       ELSE pos \div 100)}}) :
            pos \in {(n - 1) * q}}) : n \in {DataLen(m)}})

\* m.data[m.data < cutoff] *= 0, then m.eliminate_zeros()
ZeroBelow(m, c0) ==
    The({EliminateZeros(Mat(m.rows, m.cols,
            [p \in Pos(m) |-> IF Stored(m.d[p]) /\ RLt(m.d[p], c) THEN Zero ELSE m.d[p]])) :
            c \in {c0}})

\* prune_mat(m, ratio, cutoff); the sampling branch (more than 50000 stored
\* values) is out of reach of matrices this small
prune_mat(m0, ratio, cutoff) ==
    The({IF (ratio = Zero /\ cutoff = Zero) \/ DataLen(m) = 0 THEN m
         ELSE IF RLt(Zero, ratio)
              THEN ZeroBelow(m, RMax(cutoff, Percentile(m, (100 * ratio[1]) \div ratio[2])))
              ELSE ZeroBelow(m, cutoff) : m \in {m0}})

\* the weight transform of first_degree_cooccurrence (mat.data = ...)
TransData(mat0, trans_func) ==
    The({Mat(mat.rows, mat.cols,
            [p \in Pos(mat) |->
                IF ~Stored(mat.d[p]) THEN Absent
                ELSE CASE trans_func = "ones" -> One
                       [] trans_func = "log" -> Log10P1(mat.d[p])
                       [] OTHER -> mat.d[p]]) : mat \in {mat0}})

\* first_degree_cooccurrence after the transform: mat.T * mat, zero diagonal,
\* optional threshold
first_degree_cooccurrence(mat, min_cooc) ==
    The({IF min_cooc > 1 THEN prune_mat(cooc_mat, Zero, <<min_cooc, 1>>) ELSE cooc_mat :
            cooc_mat \in {SetDiagZero(MatMul(Transpose(mat), mat))}})

\* one iteration of the higher-degree loop (lines 70-76)
HigherDegreeIter(h0, i, decay) ==
    The({SetDiagZero(SpAdd(h, MatMul(Scale(RPow(decay, i + 1), h), h))) : h \in {h0}})

\* the matrices after iterations i .. n-1 of the loop, in order
RECURSIVE HigherDegreeLoop(_, _, _, _)
HigherDegreeLoop(h, i, n, decay) ==
    IF i >= n THEN <<>>
    ELSE The({<<h2>> \o HigherDegreeLoop(h2, i + 1, n, decay) : h2 \in {HigherDegreeIter(h, i, decay)}})

\* the sum of the absolute stored values of every row
RowNorms(m) ==
    [i \in 1..m.rows |->
        The({RSum([q \in R |-> RAbs(m.d[q])], R) : R \in {{q \in StoredPos(m) : q[1] = i}}})]

\* sklearn normalize(m, norm='l1', axis=1): rows of zero sum are left alone
normalize(m0) ==
    The({The({Mat(m.rows, m.cols,
            [p \in Pos(m) |->
                IF Stored(m.d[p]) /\ norms[p[1]] # Zero THEN RDiv(m.d[p], norms[p[1]])
                ELSE m.d[p]]) : norms \in {RowNorms(m) @@ <<>>}}) : m \in {m0}})

\* lines 62-80: the higher-degree expansion of the first-degree matrix, as
\* [iters, sum]: the matrix after each iteration, and the base with the rescaled
\* expansion added
HigherDegree(cooc_mat_base, p) ==
    The({The({The({[iters |-> iters,
               sum |-> SpAdd(cooc_mat_base,
                             Scale(RDiv(DataSum(cooc_mat_base), RAdd(DataSum(hn), One)), hn))] :
                hn \in {IF iters = <<>> THEN h0 ELSE iters[Len(iters)]}}) :
            iters \in {HigherDegreeLoop(h0, 0, p.degree - 1, p.decay)}}) :
            h0 \in {prune_mat(cooc_mat_base, p.prune_ratio, <<p.min_cooccurrence, 1>>)}})

\* interactions_mat_to_cooccurrence_mat: the matrices it goes through.
\*   err    the transform name is unknown (ValueError)
\*   obs    obs_mat as the call leaves it (its data is rebound by the transform)
\*   first  the first-degree matrix, iters the matrix after each higher-degree
\*          iteration, ret the matrix returned
interactions_mat_to_cooccurrence_mat(obs_mat, p) ==
    IF p.trans_func \notin TransFuncs
    THEN [err |-> TRUE, obs |-> obs_mat, first |-> NoneMat, iters |-> <<>>, ret |-> NoneMat]
    ELSE The({The({The({
            [err |-> FALSE, obs |-> mat, first |-> cooc_mat_base, iters |-> higher.iters,
             ret |-> IF p.normalize_items THEN normalize(higher.sum) ELSE higher.sum] :
                higher \in {IF p.degree > 1 THEN HigherDegree(cooc_mat_base, p)
                            ELSE [iters |-> <<>>, sum |-> cooc_mat_base]}}) :
            cooc_mat_base \in {first_degree_cooccurrence(mat, p.base_min_cooccurrence)}}) :
         mat \in {TransData(obs_mat, p.trans_func)}})

\* ------------------------------------------------------ recommender state
VARIABLES
    kind,            \* the class of the recommender object
    fit_params,      \* self.fit_params
    train_obs,       \* the caller's observations, handed to fit
    train_df,        \* self.train_df
    train_mat,       \* self.train_mat
    similarity_mat,  \* self.similarity_mat
    last_call,       \* history: the latest call, whether it raised, and whether its
                     \* ranking read a similarity matrix with a stored value below 0.01
    build,           \* history: the matrices of the latest co-occurrence build
    supplied,        \* history: the similarity pairs given since the latest fit
    query,           \* ranking state space: the arguments of the ranking call
    result           \* ranking state space: what the ranking call returned

vars == <<kind, fit_params, train_obs, train_df, train_mat, similarity_mat,
          last_call, build, supplied, query, result>>

Kinds == {"ItemCooc", "UserCooc", "SimilarityDF"}
CoocKinds == {"ItemCooc", "UserCooc"}
None == "None"

\* the subsets of S with at most k elements
RECURSIVE SubsetsUpTo(_, _)
SubsetsUpTo(S, k) ==
    IF k = 0 THEN {{}}
    ELSE LET prev == SubsetsUpTo(S, k - 1)
         IN  prev \cup {T \cup {x} : T \in prev, x \in S}

\* data frames of at most k rows, one row per key: key -> value
Frames(keys, values, k) ==
    UNION {[D -> values] : D \in SubsetsUpTo(keys, k) \ {{}}}

\* observation frames (user, item) -> weight
ObsFrames == Frames(Users \X Items, Weights, MaxObs)

\* the observations play no part in the similarity matrix of SimilarityDFRecommender
SimilarityDFObsFrames == {f \in ObsFrames : DOMAIN f = {<<1, 1>>}}

\* similarity values of the pairs given to SimilarityDFRecommender, and the
\* frames (item, item) -> similarity of one fit or continue_fit call
SimilValues == {<<-1, 1>>, <<1, 1>>}
SimilFrames == Frames(Items \X Items, SimilValues, MaxPairs)

\* sparse_mat_builder.build_sparse_interaction_matrix(df)
build_sparse_interaction_matrix(df, r, c) ==
    Mat(r, c, [p \in (1..r) \X (1..c) |-> IF p \in DOMAIN df THEN df[p] ELSE Absent])

\* settings of the co-occurrence build given to the constructor
Degrees == {1, 2, 3}
BaseMinCoocs == {1, 2}
PruneRatios == {Zero, <<1, 2>>}
Decays == {<<1, 2>>}
MinCoocs == {1}
CoocParams ==
    [normalize_items : BOOLEAN, degree : Degrees, prune_ratio : PruneRatios,
     decay : Decays, min_cooccurrence : MinCoocs,
     base_min_cooccurrence : BaseMinCoocs, trans_func : TransFuncs]
\* the constructor's defaults (lines 171-173), with the two settings a caller
\* most often changes left open
DefaultCoocParams ==
    {p \in CoocParams : /\ p.degree = 1 /\ p.prune_ratio = Zero /\ p.decay = <<1, 2>>
                        /\ p.min_cooccurrence = 1 /\ p.base_min_cooccurrence = 1}
NoParams == [trans_func |-> None]

Threshold == <<1, 100>>

NoCall == [op |-> "init", raised |-> FALSE, read |-> "none"]
Call(op, raised, read) == [op |-> op, raised |-> raised, read |-> read]
NoBuild == [first |-> NoneMat, iters |-> <<>>, ret |-> NoneMat]
NoSupplied == [pairs |-> <<>>, exact |-> FALSE, calls |-> 0]
NoQuery == None
NoResult == [status |-> "none"]

\* _set_fit_params(fit_params): the keywords given to fit update self.fit_params
_set_fit_params(params, given) ==
    [k \in DOMAIN params |-> IF k \in DOMAIN given THEN given[k] ELSE params[k]]

\* the keyword arguments a caller gives to fit
FitKeywords ==
    {<<>>} \cup {[trans_func |-> t] : t \in {UnknownTransFunc}}

\* a shift by |min| alone, without the 0.01 floor
_check_no_negatives_NoFloor(m0) ==
    The({IF DataLen(m) = 0 THEN m
         ELSE The({IF RLt(min, Threshold) THEN ShiftData(m, RAbs(min)) ELSE m :
                    min \in {DataMin(m)}}) : m \in {m0}})

\* BaseSimilarityRecommeder._check_no_negatives
_check_no_negatives(m0) ==
    The({IF DataLen(m) = 0 THEN m
         ELSE The({IF RLt(min, Threshold) THEN ShiftData(m, RAbs(RSub(min, Threshold))) ELSE m :
                    min \in {DataMin(m)}}) : m \in {m0}})

\* a fit that forgets to add the transpose
Symmetrize_NoTranspose(m0) == m0

\* self.similarity_mat += self.similarity_mat.T
Symmetrize(m0) == The({SpAdd(m, Transpose(m)) : m \in {m0}})

\* whether a ranking over m reads a stored value below 0.01
ReadOf(m) == IF \E p \in StoredPos(m) : RLt(m.d[p], Threshold) THEN "below" ELSE "ok"

\* a recommender just constructed, and the observations its caller holds
Constructed(params) ==
    /\ kind \in Kinds
    /\ fit_params \in (IF kind \in CoocKinds THEN params ELSE {NoParams})
    /\ train_obs \in (IF kind \in CoocKinds THEN ObsFrames ELSE SimilarityDFObsFrames)
    /\ train_df = None
    /\ train_mat = NoneMat
    /\ similarity_mat = NoneMat
    /\ last_call = NoCall
    /\ build = NoBuild
    /\ supplied = NoSupplied
    /\ query = NoQuery
    /\ result = NoResult

Init == Constructed(DefaultCoocParams)

RankVarsUnchanged == UNCHANGED <<query, result>>

\* ItemCoocRecommender.fit / UserCoocRecommender.fit
CoocFit(given) ==
    /\ kind \in CoocKinds
    /\ \E params \in {_set_fit_params(fit_params, given)},
          built \in {build_sparse_interaction_matrix(train_obs, NumUsers, NumItems)} :
        \E b \in {interactions_mat_to_cooccurrence_mat(
                      IF kind = "ItemCooc" THEN built ELSE Transpose(built), params)} :
           /\ fit_params' = params
           /\ train_df' = train_obs
           \* ItemCooc hands self.train_mat itself to the build, which rebinds its
           \* data; UserCooc hands a transposed view, whose data the build rebinds
           /\ train_mat' = IF kind = "ItemCooc" THEN b.obs ELSE built
           /\ IF b.err
              THEN /\ UNCHANGED <<similarity_mat, build>>
                   /\ last_call' = Call("fit", TRUE, "none")
              ELSE /\ similarity_mat' = IF kind = "ItemCooc" THEN Symmetrize(b.ret) ELSE b.ret
                   /\ build' = [first |-> b.first, iters |-> b.iters, ret |-> b.ret]
                   /\ last_call' = Call("fit", FALSE, "none")
    /\ UNCHANGED <<kind, train_obs, supplied>>
    /\ RankVarsUnchanged

\* SimilarityDFRecommender.fit
SimilarityDFFit(simil_df_flat) ==
    /\ kind = "SimilarityDF"
    /\ fit_params' = fit_params
    /\ train_df' = train_obs
    /\ train_mat' = build_sparse_interaction_matrix(train_obs, NumUsers, NumItems)
    /\ similarity_mat' = Symmetrize(build_sparse_interaction_matrix(simil_df_flat, NumItems, NumItems))
    /\ supplied' = [pairs |-> simil_df_flat, exact |-> TRUE, calls |-> 0]
    /\ last_call' = Call("fit", FALSE, "none")
    /\ UNCHANGED <<kind, train_obs, build>>
    /\ RankVarsUnchanged

\* a continue_fit that replaces the matrix by the new evidence
AddPartial_Overwrite(m, partial0) ==
    The({SpAdd(partial, Transpose(partial)) : partial \in {partial0}})

\* self.similarity_mat += partial_similarity_mat + partial_similarity_mat.T
AddPartial(m, partial0) ==
    The({SpAdd(m, SpAdd(partial, Transpose(partial))) : partial \in {partial0}})

\* SimilarityDFRecommender.continue_fit
ContinueFit(simil_df_flat) ==
    /\ kind = "SimilarityDF"
    /\ similarity_mat # NoneMat
    /\ supplied.calls < MaxContinue
    /\ similarity_mat' =
          AddPartial(similarity_mat, build_sparse_interaction_matrix(simil_df_flat, NumItems, NumItems))
    /\ supplied' =
          IF supplied.exact /\ DOMAIN simil_df_flat \cap DOMAIN supplied.pairs = {}
          THEN [pairs |-> supplied.pairs @@ simil_df_flat, exact |-> TRUE,
                calls |-> supplied.calls + 1]
          ELSE [pairs |-> <<>>, exact |-> FALSE, calls |-> supplied.calls + 1]
    /\ last_call' = Call("continue_fit", FALSE, "none")
    /\ UNCHANGED <<kind, fit_params, train_obs, train_df, train_mat, build>>
    /\ RankVarsUnchanged

\* the history of the pairs is exact until a query shifts the stored values
SuppliedAfter(m) ==
    IF kind = "SimilarityDF" /\ m # similarity_mat
    THEN [pairs |-> <<>>, exact |-> FALSE, calls |-> supplied.calls]
    ELSE supplied

\* get_similar_items: the no-negatives check, then the ranking
\* (UserCoocRecommender raises NotImplementedError)
GetSimilarItems ==
    /\ similarity_mat # NoneMat
    /\ IF kind = "UserCooc"
       THEN /\ last_call' = Call("get_similar_items", TRUE, "none")
            /\ UNCHANGED <<similarity_mat, supplied>>
       ELSE \E m \in {_check_no_negatives(similarity_mat)} :
                /\ similarity_mat' = m
                /\ supplied' = SuppliedAfter(m)
                /\ last_call' = Call("get_similar_items", FALSE, ReadOf(m))
    /\ UNCHANGED <<kind, fit_params, train_obs, train_df, train_mat, build>>
    /\ RankVarsUnchanged

\* _get_recommendations_flat_unfilt: the base class checks, then ranks each
\* user's items; UserCoocRecommender ranks with row_func without the check
GetRecommendations ==
    /\ similarity_mat # NoneMat
    /\ IF kind = "UserCooc"
       THEN /\ last_call' = Call("get_recommendations", FALSE, ReadOf(similarity_mat))
            /\ UNCHANGED <<similarity_mat, supplied>>
       ELSE \E m \in {_check_no_negatives(similarity_mat)} :
                /\ similarity_mat' = m
                /\ supplied' = SuppliedAfter(m)
                /\ last_call' = Call("get_recommendations", FALSE, ReadOf(m))
    /\ UNCHANGED <<kind, fit_params, train_obs, train_df, train_mat, build>>
    /\ RankVarsUnchanged

\* recommend_for_interaction_history: ranks straight away
\* (UserCoocRecommender raises NotImplementedError)
RecommendForInteractionHistory ==
    /\ similarity_mat # NoneMat
    /\ last_call' = IF kind = "UserCooc"
                    THEN Call("recommend_for_interaction_history", TRUE, "none")
                    ELSE Call("recommend_for_interaction_history", FALSE, ReadOf(similarity_mat))
    /\ UNCHANGED <<kind, fit_params, train_obs, train_df, train_mat, similarity_mat,
                   build, supplied>>
    /\ RankVarsUnchanged

Fit ==
    \/ \E given \in FitKeywords : CoocFit(given)
    \/ \E simil_df_flat \in SimilFrames : SimilarityDFFit(simil_df_flat)

Continue == \E simil_df_flat \in SimilFrames : ContinueFit(simil_df_flat)

Next ==
    \/ Fit
    \/ Continue
    \/ GetSimilarItems
    \/ GetRecommendations
    \/ RecommendForInteractionHistory

Spec == Init /\ [][Next]_vars

\* the co-occurrence build over every setting: one fit of a co-occurrence
\* recommender, then its queries
InitBuild == kind \in CoocKinds /\ Constructed(CoocParams)

FirstFit == similarity_mat = NoneMat /\ CoocFit(<<>>)

NextBuild ==
    \/ FirstFit
    \/ GetSimilarItems
    \/ GetRecommendations
    \/ RecommendForInteractionHistory

SpecBuild == InitBuild /\ [][NextBuild]_vars

\* ------------------------------------------------------------ top-K ranking
\* the orderings of a finite set, as sequences
Perms(S) ==
    {p \in [1..Cardinality(S) -> S] : \A i, j \in DOMAIN p : i # j => p[i] # p[j]}

\* a selection that does not partition: any index order
ArgPartition_Unpartitioned(v, kth) == Perms(DOMAIN v)

\* np.argpartition(v, kth): every index order numpy may return, the element of
\* rank kth (counted from 0) in its sorted place, no smaller ones after it and
\* no greater ones before it
ArgPartition(v, kth) ==
    {p \in Perms(DOMAIN v) :
        \A i \in DOMAIN p : /\ i < kth + 1 => RLe(v[p[i]], v[p[kth + 1]])
                            /\ i > kth + 1 => RLe(v[p[kth + 1]], v[p[i]])}

\* np.argsort(-w): every order that sorts w descending (ties in any order)
ArgSortDesc(w) ==
    {s \in Perms(DOMAIN w) : \A i, j \in DOMAIN s : i < j => RLe(w[s[j]], w[s[i]])}

\* the position kth = -n of an array of length len: -0 is 0, the first one
KthFromEnd(len, n) == IF n = 0 THEN 0 ELSE len - n

\* a[-n:], which is all of a when n = 0
LastN(a, n) == IF n = 0 THEN a ELSE SubSeq(a, Len(a) - n + 1, Len(a))

\* lines 117-120 and 230-233: partition, sort the selected part, pair with scores
TopK(v, n_rec) ==
    {LET i_sort == [j \in 1..n_rec |-> i_part[s[j]]]
     IN  [status |-> "ok", inds |-> i_sort, scores |-> [j \in 1..n_rec |-> v[i_sort[j]]]] :
        <<i_part, s>> \in
            UNION {{<<ip, t>> : t \in ArgSortDesc([j \in DOMAIN ip |-> v[ip[j]]])} :
                   ip \in {LastN(p, n_rec) : p \in ArgPartition(v, KthFromEnd(Len(v), n_rec))}}}

Min(a, b) == IF a < b THEN a ELSE b

\* the column sums of the rows `rows` of m, each row scaled by weight[row]
ColumnSums(m, rows, weight) ==
    [j \in 1..m.cols |->
        RSum([i \in rows |-> RMul(weight[i], Val(m.d[<<i, j>>]))], rows)]

\* lines 108-113: the summed rows of the seeds, the seeds' own scores zeroed
SumSimils(m, item_inds, remove_self) ==
    LET summed == ColumnSums(m, item_inds, [i \in item_inds |-> One])
    IN  [j \in DOMAIN summed |-> IF remove_self /\ j \in item_inds THEN Zero ELSE summed[j]]

\* BaseSimilarityRecommeder._recommend_for_item_inds: the results it may return
_recommend_for_item_inds(m, item_inds, n_rec_unfilt, remove_self) ==
    LET sum_simils == SumSimils(m, item_inds, remove_self)
        n_rec == Min(n_rec_unfilt, Len(sum_simils))
    IN  TopK(sum_simils, n_rec)

ValueError == [status |-> "ValueError"]

\* row_func of UserCoocRecommender._get_recommendations_flat_unfilt: the rows
\* user_inds of train_mat, scaled by row_data, summed and ranked; np.argpartition
\* raises ValueError when kth is out of bounds
row_func(tm, user_inds, row_data, n_rec_unfilt) ==
    LET sum_weight_occurs == ColumnSums(tm, user_inds, row_data)
    IN  IF n_rec_unfilt > Len(sum_weight_occurs) THEN {ValueError}
        ELSE TopK(sum_weight_occurs, n_rec_unfilt)

\* similarity matrices to rank against: fits of SimilarityDFRecommender
RankFrames == Frames(Items \X Items, SimilValues, MaxRankPairs)

\* the settings UserCoocRecommender is ranked with
RankCoocParams == {p \in DefaultCoocParams : p.trans_func = "ones"}

InitRank ==
    /\ kind \in {"SimilarityDF", "UserCooc"}
    /\ IF kind = "SimilarityDF"
       THEN /\ fit_params = NoParams
            /\ train_obs \in SimilarityDFObsFrames
            /\ \E f \in RankFrames :
                  similarity_mat = Symmetrize(build_sparse_interaction_matrix(f, NumItems, NumItems))
            /\ build = NoBuild
            /\ query \in [item_inds : SUBSET Items, n_rec : 0..MaxK, remove_self : BOOLEAN]
       ELSE /\ fit_params \in RankCoocParams
            /\ train_obs \in ObsFrames
            /\ \E b \in {interactions_mat_to_cooccurrence_mat(
                            Transpose(build_sparse_interaction_matrix(train_obs, NumUsers, NumItems)),
                            fit_params)} :
                  /\ build = [first |-> b.first, iters |-> b.iters, ret |-> b.ret]
                  /\ similarity_mat = b.ret
            /\ query \in [user : Users, n_rec : 0..MaxK]
    /\ train_df = train_obs
    /\ train_mat = build_sparse_interaction_matrix(train_obs, NumUsers, NumItems)
    /\ last_call = Call("fit", FALSE, "none")
    /\ supplied = NoSupplied
    /\ result = NoResult

\* one call of _recommend_for_item_inds
RecommendForItemInds ==
    /\ kind # "UserCooc"
    /\ result = NoResult
    /\ result' \in _recommend_for_item_inds(similarity_mat, query.item_inds, query.n_rec,
                                            query.remove_self)
    /\ UNCHANGED <<kind, fit_params, train_obs, train_df, train_mat, similarity_mat,
                   last_call, build, supplied, query>>

\* one call of row_func, for the stored row of the user in the similarity matrix
RowFunc ==
    /\ kind = "UserCooc"
    /\ result = NoResult
    /\ LET user_inds == {j \in Users : Stored(similarity_mat.d[<<query.user, j>>])}
           row_data == [j \in user_inds |-> similarity_mat.d[<<query.user, j>>]]
       IN  result' \in row_func(train_mat, user_inds, row_data, query.n_rec)
    /\ UNCHANGED <<kind, fit_params, train_obs, train_df, train_mat, similarity_mat,
                   last_call, build, supplied, query>>

NextRank == RecommendForItemInds \/ RowFunc

SpecRank == InitRank /\ [][NextRank]_vars

\* ------------------------------------------------------------------ claims
Symmetric(m) == \A p \in Pos(m) : Val(m.d[p]) = Val(m.d[<<p[2], p[1]>>])
DiagZero(m) == \A i \in 1..m.rows : Val(m.d[<<i, i>>]) = Zero
AllStoredAtLeast(m, r) == \A p \in StoredPos(m) : RLe(r, m.d[p])
RowSum(m, i) == RSum([j \in 1..m.cols |-> Val(m.d[<<i, j>>])], 1..m.cols)
RowIsZero(m, i) == \A j \in 1..m.cols : Val(m.d[<<i, j>>]) = Zero
Descending(w) == \A i, j \in DOMAIN w : i < j => RLe(w[j], w[i])

\* the j-th greatest value of v (j counted from 1), by counting
JthGreatest(v, j) ==
    v[CHOOSE i \in DOMAIN v :
         /\ Cardinality({x \in DOMAIN v : RLt(v[i], v[x])}) < j
         /\ Cardinality({x \in DOMAIN v : RLe(v[i], v[x])}) >= j]

\* the full descending sort of v, cut to its first k values
BruteForceTopK(v, k) == [j \in 1..k |-> JthGreatest(v, j)]

\* C1: after ItemCoocRecommender.fit or SimilarityDFRecommender.fit, and after
\* any continue_fit calls and queries that follow, the stored similarity matrix
\* is symmetric.
C1_SimilaritySymmetric ==
    (kind \in {"ItemCooc", "SimilarityDF"} /\ similarity_mat # NoneMat)
        => Symmetric(similarity_mat)

\* C1 witness: a SimilarityDF matrix with off-diagonal values, extended by
\* continue_fit and shifted by a query
C1_Witness ==
    /\ kind = "SimilarityDF"
    /\ supplied.calls >= 1
    /\ ~supplied.exact
    /\ last_call.op = "get_similar_items"
    /\ \E p \in StoredPos(similarity_mat) : p[1] # p[2]

\* C2: as long as the batches are disjoint, the matrix accumulated by fit and
\* continue_fit equals the matrix of one fit on all the pairs supplied.
C2_ContinueFitEqualsSingleFit ==
    (kind = "SimilarityDF" /\ supplied.exact)
        => similarity_mat =
              SpAdd(build_sparse_interaction_matrix(supplied.pairs, NumItems, NumItems),
                    Transpose(build_sparse_interaction_matrix(supplied.pairs, NumItems, NumItems)))

\* C2 witness: two continue_fit calls with disjoint batches after a fit
C2_Witness ==
    /\ kind = "SimilarityDF"
    /\ supplied.exact
    /\ supplied.calls = 2
    /\ last_call.op = "continue_fit"
    /\ Cardinality(DOMAIN supplied.pairs) = 3

\* C3: for k <= n, _recommend_for_item_inds returns exactly k scores, in
\* descending order, equal to the brute-force top k of the summed score vector,
\* each paired with its own index.
C3_TopKIsBruteForceTopK ==
    (kind # "UserCooc" /\ result.status = "ok" /\ query.n_rec <= NumItems)
        => \A v \in {SumSimils(similarity_mat, query.item_inds, query.remove_self)} :
               /\ Len(result.scores) = query.n_rec
               /\ Len(result.inds) = query.n_rec
               /\ Descending(result.scores)
               /\ result.scores = BruteForceTopK(v, query.n_rec)
               /\ \A j \in DOMAIN result.inds : result.scores[j] = v[result.inds[j]]
               /\ \A i, j \in DOMAIN result.inds : i # j => result.inds[i] # result.inds[j]

\* C3 witness: a ranking of some but not all columns, with distinct scores
C3_Witness ==
    /\ kind # "UserCooc"
    /\ result.status = "ok"
    /\ query.n_rec = 2
    /\ query.n_rec < NumItems
    /\ query.item_inds # {}
    /\ result.scores[1] # result.scores[2]
    /\ result.scores[2] # Zero

C5_DiagonalZero ==
    /\ DiagZero(build.first)
    /\ \A i \in DOMAIN build.iters : DiagZero(build.iters[i])
    /\ DiagZero(build.ret)
    /\ kind \in CoocKinds => DiagZero(similarity_mat)

\* C5 witness: an item co-occurrence fit of degree 3 whose matrix a query shifted
C5_Witness ==
    /\ kind = "ItemCooc"
    /\ fit_params.degree = 3
    /\ Len(build.iters) = 2
    /\ DataLen(build.first) > NumItems
    /\ last_call.op = "get_similar_items"
    /\ similarity_mat # Symmetrize(build.ret)

\* C6: with normalize_items, every row of the matrix held after
\* ItemCoocRecommender.fit sums to 1 or is all zero.
C6_HeldRowsSumToOne ==
    (kind = "ItemCooc" /\ last_call = Call("fit", FALSE, "none") /\ fit_params.normalize_items)
        => \A i \in 1..similarity_mat.rows :
              RowSum(similarity_mat, i) = One \/ RowIsZero(similarity_mat, i)

\* C7: a fit that fails on an unknown trans_func leaves a fitted recommender as
\* it was: its similarity matrix, interaction matrix, training data and fit
\* parameters are those of the fit before.
C7_FailedFitChangesNothing ==
    [][(similarity_mat # NoneMat /\ last_call'.op = "fit" /\ last_call'.raised)
          => UNCHANGED <<similarity_mat, train_mat, train_df, fit_params>>]_vars

\* C8: no ranking reads a similarity matrix with a stored value below 0.01.
C8_RankingNeverReadsBelowThreshold == last_call.read # "below"

\* C9: train_mat holds exactly the interaction weights built from the training
\* data, after fit and after every later query.
C9_TrainMatHoldsBuiltWeights ==
    train_mat # NoneMat
        => train_mat = build_sparse_interaction_matrix(train_df, NumUsers, NumItems)

\* C10: for any requested k the user-space ranking returns min(k, n) indices
\* with their scores in descending order, and does not fail.
C10_UserRankingClampsK ==
    (kind = "UserCooc" /\ result # NoResult)
        => /\ result.status = "ok"
           /\ Len(result.inds) = Min(query.n_rec, NumItems)
           /\ Descending(result.scores)

====
